---------------------------- MODULE Spec2Model ----------------------------
(***************************************************************************)
(* Model of the document indexing and retrieval engine of                  *)
(* src/agent_toteat/tools/tool_unstructured.py: the Chunker, the           *)
(* IndexStore (etag staleness check, wholesale re-index), the QueryEngine  *)
(* (routing, per-document top-k, global ranking, confidence flag), the     *)
(* answer composer and the ToolAdapter entry point.                        *)
(*                                                                         *)
(* Scores are cosine similarities scaled by 100 (0.20 is 20).  A text is a *)
(* sequence of words, a word is a small natural number.  A file's          *)
(* modification time is counted in ticks, TicksPerSecond ticks to the      *)
(* second, because the etag keeps only the whole seconds of st_mtime.      *)
(***************************************************************************)
EXTENDS Integers, Sequences, FiniteSets, TLC

VARIABLES fs, indices, DEFAULT_FILES, MIN_ACCEPTED, pc, out, csv, repo, cache, loads

\* the state of the tabular tool: the CSV files, the lazy repository, the
\* result caches of its handlers, and how often _load_repo was called (a
\* history variable)
tabvars == <<csv, repo, cache, loads>>

vars == <<fs, indices, DEFAULT_FILES, MIN_ACCEPTED, pc, out, tabvars>>

(***************************************************************************)
(* Bounds of the model.                                                    *)
(***************************************************************************)
\* modification times range over the ticks 0..MaxTick
MaxTick == 2
\* resolution of the file system clock: ticks per whole second
TicksPerSecond == 2
\* the explicit top_k arguments range over -1..MaxTopK (0: use the default)
MaxTopK == 2

(***************************************************************************)
(* Configuration (module constants read from the environment, lines 80-92).*)
(* TOP_K_DEFAULT is the default.  MIN_ACCEPTED is a variable set once, at   *)
(* start, to the default (0.20, in hundredths) or to another setting of    *)
(* UNSTRUCTURED_MIN_ACCEPTED, which float() accepts whatever its sign.     *)
(* The chunk sizes and overlaps are settings of the environment; the model *)
(* sets them small, so that a six-word section yields several overlapping  *)
(* chunks, and they count among its bounds.                                *)
(***************************************************************************)
TOP_K_DEFAULT == 40
DefaultMinAccepted == 20
MinAcceptedSettings == {-5, 0, DefaultMinAccepted}
MD_CHUNK_TOKENS == 4
MD_OVERLAP_TOKENS == 2
DOCX_CHUNK_TOKENS == 4
DOCX_OVERLAP_TOKENS == 1
PDF_CHUNK_TOKENS == 6
PDF_OVERLAP_TOKENS == 3

(***************************************************************************)
(* Small helpers.                                                          *)
(***************************************************************************)
Max(a, b) == IF a >= b THEN a ELSE b
Min(a, b) == IF a <= b THEN a ELSE b

\* math.ceil(a / b) for b > 0 (\div rounds towards minus infinity)
Ceil(a, b) == -((-a) \div b)

\* Python's seq[lo:hi] on 0-based bounds already clipped to 0..Len(seq)
Slice(seq, lo, hi) == [k \in 1..Max(0, hi - lo) |-> seq[lo + k]]

\* Python's seq[:n], n possibly negative
Prefix(seq, n) ==
    IF n >= 0 THEN Slice(seq, 0, Min(n, Len(seq)))
    ELSE Slice(seq, 0, Max(0, Len(seq) + n))

RECURSIVE SumSeq(_)
SumSeq(s) == IF s = <<>> THEN 0 ELSE Head(s) + SumSeq(Tail(s))

Range(s) == {s[k] : k \in DOMAIN s}

(***************************************************************************)
(* The file system: the paths the model knows, and what a file holds.      *)
(* A file is [exists, tick, ver]: ver names its content.                   *)
(*   ver 0  bytes the extractor cannot read (extract_text raises)          *)
(*   ver 1  one section of six words                                       *)
(*   ver 2  two sections of six words and a short one; as many bytes as 1  *)
(*   ver 3  only short sections (no chunk survives presection)             *)
(***************************************************************************)
Paths == {"a.md", "b.pdf", "c.docx", "d.txt"}
Indexable == {"a.md", "b.pdf", "c.docx"}
Versions == 0..3
NoFile == [exists |-> FALSE, tick |-> 0, ver |-> 0]
File(t, v) == [exists |-> TRUE, tick |-> t, ver |-> v]

\* st_size of a file holding content ver
SizeOf(ver) == CASE ver = 0 -> 7 [] ver = 1 -> 10 [] ver = 2 -> 10 [] OTHER -> 20

\* the blocks of text of a content, before the short ones are dropped
RawSections(ver) ==
    CASE ver = 1 -> << <<0, 0, 0, 0, 2, 1>> >>
      [] ver = 2 -> << <<1, 0, 0, 0, 0, 3>>, <<5, 5>>, <<0, 0, 2, 0, 0, 0>> >>
      [] OTHER   -> << <<2, 2>>, <<1>> >>

\* Path.suffix.lower()
Suffix(p) ==
    CASE p = "a.md" -> ".md" [] p = "b.pdf" -> ".pdf"
      [] p = "c.docx" -> ".docx" [] OTHER -> ".txt"

\* _detect_kind: the kind, or "ValueError" for an unsupported extension
detect_kind(p) ==
    IF Suffix(p) = ".md" THEN "md"
    ELSE IF Suffix(p) = ".docx" THEN "docx"
    ELSE IF Suffix(p) = ".pdf" THEN "pdf"
    ELSE "ValueError"

(***************************************************************************)
(* Extractors: extract_text and presection.                                *)
(***************************************************************************)
\* extract_text raises on bytes it cannot read
ExtractFails(f) == f.ver = 0

\* presection keeps the blocks of more than five words
RECURSIVE presection(_)
presection(blocks) ==
    IF blocks = <<>> THEN <<>>
    ELSE IF Len(Head(blocks)) > 5
         THEN <<Head(blocks)>> \o presection(Tail(blocks))
         ELSE presection(Tail(blocks))

(***************************************************************************)
(* Chunker.                                                                *)
(***************************************************************************)
chunk_cfg_for(kind) ==
    IF kind = "md" THEN [tokens |-> MD_CHUNK_TOKENS, overlap |-> MD_OVERLAP_TOKENS]
    ELSE IF kind = "docx"
         THEN [tokens |-> DOCX_CHUNK_TOKENS, overlap |-> DOCX_OVERLAP_TOKENS]
         ELSE [tokens |-> PDF_CHUNK_TOKENS, overlap |-> PDF_OVERLAP_TOKENS]

\* ChunkStep falling back to half a chunk when the overlap leaves no step
ChunkStepHalf(cfg) ==
    IF cfg.tokens - cfg.overlap > 0 THEN cfg.tokens - cfg.overlap
    ELSE Max(1, cfg.tokens \div 2)
ChunkStep(cfg) == Max(1, cfg.tokens - cfg.overlap)

\* for start in range(0, len(words), step): words[start : start + tokens]
RECURSIVE SplitFrom(_, _, _)
SplitFrom(words, cfg, start) ==
    IF start >= Len(words) THEN <<>>
    ELSE LET piece == Slice(words, start, Min(Len(words), start + cfg.tokens))
         IN  IF piece = <<>> THEN <<>>
             ELSE <<piece>> \o SplitFrom(words, cfg, start + ChunkStep(cfg))

split_section(section, cfg) == SplitFrom(section, cfg, 0)

\* SectionChunks labelling every chunk with the first section's locator
SectionChunksFirstLocator(pieces, path, i) ==
    [j \in 1..Len(pieces) |->
        [text |-> pieces[j], path |-> path, locator |-> 1, idx_local |-> j - 1]]
\* the chunks of section number i (1-based): locator "section-i", idx_local j
SectionChunks(pieces, path, i) ==
    [j \in 1..Len(pieces) |->
        [text |-> pieces[j], path |-> path, locator |-> i, idx_local |-> j - 1]]

RECURSIVE ChunkFrom(_, _, _, _)
ChunkFrom(sections, path, cfg, i) ==
    IF i > Len(sections) THEN <<>>
    ELSE SectionChunks(split_section(sections[i], cfg), path, i)
            \o ChunkFrom(sections, path, cfg, i + 1)

chunk(sections, path, kind) == ChunkFrom(sections, path, chunk_cfg_for(kind), 1)

(***************************************************************************)
(* Embeddings.  The sentence encoder is an injected collaborator: a        *)
(* deterministic map from a text to a vector.  Here the vector is picked   *)
(* from a table by the sum of the words; the vectors have norm 0, 1 or 5,  *)
(* so every cosine is a whole number of hundredths.                        *)
(***************************************************************************)
VecTable == << <<1, 0>>, <<0, 1>>, <<3, 4>>, <<4, 3>>, <<0, 0>>, <<-1, 0>> >>

Embed(text) == VecTable[(SumSeq(text) % Len(VecTable)) + 1]

encode_texts(texts) == [k \in 1..Len(texts) |-> Embed(texts[k])]

encode_query(q) == Embed(q)

Dot(a, b) == a[1] * b[1] + a[2] * b[2]

Norm(a) == CHOOSE n \in 0..5 : n * n = Dot(a, a)

\* one entry of _cosine_sim: (v / (|v| + eps)) . (q / (|q| + eps)), times 100
Cosine(q, v) ==
    IF Norm(q) * Norm(v) = 0 THEN 0
    ELSE (100 * Dot(q, v)) \div (Norm(q) * Norm(v))

cosine_sim(q, B) == [k \in 1..Len(B) |-> Cosine(q, B[k])]

(***************************************************************************)
(* IndexStore.                                                             *)
(* An IndexedDoc is [etag, kind, chunks, embeddings]; the model adds the   *)
(* history field src, the file as it was when the entry was built, which   *)
(* no operation reads.                                                     *)
(***************************************************************************)
NoEntry == [kind |-> "none"]

\* _etag_local: f"local-{int(st.st_mtime)}-{st.st_size}"
etag_local(f) == [mtime |-> f.tick \div TicksPerSecond, size |-> SizeOf(f.ver)]

\* IsHit looking the path up under a key nothing is stored under
IsHitWrongKey(idx, path, etag) == FALSE

\* hit = self.indices.get(path); hit and hit["etag"] == etag
IsHit(idx, path, etag) == path \in DOMAIN idx /\ idx[path].etag = etag

\* BuildIndex embedding the sections instead of the chunks cut from them
BuildIndexEmbedsSections(f, path, kind) ==
    LET chunks == chunk(presection(RawSections(f.ver)), path, kind)
    IN  [etag |-> etag_local(f), kind |-> kind, chunks |-> chunks,
         embeddings |-> encode_texts(presection(RawSections(f.ver))),
         src |-> f]

\* lines 317-325: extract, presection, chunk, embed, build the IndexedDoc
BuildIndex(f, path, kind) ==
    LET chunks == chunk(presection(RawSections(f.ver)), path, kind)
    IN  [etag |-> etag_local(f), kind |-> kind, chunks |-> chunks,
         embeddings |-> encode_texts([k \in 1..Len(chunks) |-> chunks[k].text]),
         src |-> f]

\* The capacity of the specified eviction policy (max_docs); the code holds
\* no such setting.
MaxDocs == 2

\* StoreEntry followed by the specified batch eviction: above MaxDocs
\* entries only MaxDocs - 2 of them are kept
StoreEntryEvicting(idx, path, entry) ==
    IF Cardinality(DOMAIN idx \cup {path}) > MaxDocs
    THEN LET keep == CHOOSE K \in SUBSET (DOMAIN idx \cup {path}) :
                         Cardinality(K) = MaxDocs - 2
         IN  [q \in keep |-> IF q = path THEN entry ELSE idx[q]]
    ELSE (path :> entry) @@ idx

\* self.indices[str(path)] = idx
StoreEntry(idx, path, entry) == (path :> entry) @@ idx

\* lines 325-328: the new entry replaces the old one and is returned
Indexed(idx, path, e) ==
    [ok |-> TRUE, err |-> "none", entry |-> e, indices |-> StoreEntry(idx, path, e),
     extracted |-> 1, embedded |-> 1]

\* ensure_indexed: what it returns or raises, the store after it, and how
\* often it called the extractor and the embedder
ensure_indexed(idx, fsys, doc) ==
    LET f == fsys[doc.path]
    IN  IF ~f.exists
        THEN [ok |-> FALSE, err |-> "FileNotFoundError", entry |-> NoEntry,
              indices |-> idx, extracted |-> 0, embedded |-> 0]
        ELSE IF IsHit(idx, doc.path, etag_local(f))
        THEN [ok |-> TRUE, err |-> "none", entry |-> idx[doc.path],
              indices |-> idx, extracted |-> 0, embedded |-> 0]
        ELSE IF ExtractFails(f)
        THEN [ok |-> FALSE, err |-> "ExtractError", entry |-> NoEntry,
              indices |-> idx, extracted |-> 1, embedded |-> 0]
        ELSE Indexed(idx, doc.path, BuildIndex(f, doc.path, doc.kind))

\* ensure_all_indexed: every failure (unsupported kind included) is skipped
RECURSIVE ensure_all_indexed(_, _, _)
ensure_all_indexed(idx, fsys, files) ==
    IF files = <<>> THEN idx
    ELSE LET p == Head(files)
         IN  IF detect_kind(p) = "ValueError"
             THEN ensure_all_indexed(idx, fsys, Tail(files))
             ELSE ensure_all_indexed(
                      ensure_indexed(idx, fsys,
                                     [path |-> p, kind |-> detect_kind(p)]).indices,
                      fsys, Tail(files))

(***************************************************************************)
(* QueryEngine.                                                            *)
(***************************************************************************)
\* _route_candidates: the DocumentRefs, or the ValueError of _detect_kind
Refs(files) == [k \in 1..Len(files) |-> [path |-> files[k], kind |-> detect_kind(files[k])]]

RouteOf(files) ==
    IF \E k \in 1..Len(files) : detect_kind(files[k]) = "ValueError"
    THEN [raised |-> "ValueError", refs |-> <<>>]
    ELSE [raised |-> "none", refs |-> Refs(files)]

\* The routing rules of the specified Router: a keyword (a word of the
\* query) and the document it selects.  The code holds no such table.
RoutingTable == (1 :> "b.pdf")

KeywordTargets(query) == {RoutingTable[w] : w \in Range(query) \cap DOMAIN RoutingTable}

SelectTargets(corpus, targets) == SelectSeq(corpus, LAMBDA p : p \in targets)

\* route_candidates applying the routing rules under "auto", with the
\* fallback to the whole corpus when no rule matches
route_by_keyword(query, scope, files, corpus) ==
    IF scope = "files" /\ files # <<>> THEN RouteOf(files)
    ELSE IF KeywordTargets(query) # {}
         THEN RouteOf(SelectTargets(corpus, KeywordTargets(query)))
         ELSE RouteOf(corpus)

\* route_candidates applying the routing rules under "auto" with no fallback
route_without_fallback(query, scope, files, corpus) ==
    IF scope = "files" /\ files # <<>> THEN RouteOf(files)
    ELSE RouteOf(SelectTargets(corpus, KeywordTargets(query)))

route_candidates(query, scope, files, corpus) ==
    IF scope = "files" /\ files # <<>> THEN RouteOf(files) ELSE RouteOf(corpus)

\* np.argsort(-sims): the indices by descending similarity.  The default
\* sort kind is not stable, so equal similarities come in any order.
RECURSIVE ArgsortDesc(_, _)
ArgsortDesc(sims, S) ==
    IF S = {} THEN {<<>>}
    ELSE LET top == {i \in S : \A j \in S : sims[i] >= sims[j]}
         IN  UNION {{<<i>> \o r : r \in ArgsortDesc(sims, S \ {i})} : i \in top}

\* k_local without the floor of five under the cap of the chunk count
k_local_without_floor(n, top_k, ncand) ==
    Max(3, Min(n, Ceil(top_k, Max(1, ncand)) * 2))
k_local(n, top_k, ncand) == Max(3, Min(n, Max(5, Ceil(top_k, Max(1, ncand)) * 2)))

\* a Result row; cand (the candidate's position) and idx (the chunk's index
\* in its document) are history fields of the model
Row(entry, sims, ti, c) ==
    [source |-> <<entry.chunks[ti].path, entry.chunks[ti].locator>>,
     score |-> sims[ti], snippet |-> entry.chunks[ti].text,
     cand |-> c, idx |-> ti]

DocRows(entry, sims, order, k, c) ==
    [m \in 1..Min(k, Len(order)) |-> Row(entry, sims, order[m], c)]

\* lines 391-402 for a document that ensure_indexed returned (r): one
\* outcome for each order argsort can give.  On a document with no chunk
\* the encoder returns an array without a second axis and _cosine_sim raises
\* on it (the document is skipped, though stored); an encoder returning a
\* 0 x dim matrix lets it through with no row.  Both are allowed.
\* RankDoc adding the rows of a document without listing it as indexed
RankDocUnlisted(st, cand, c, r, sims, k) ==
    IF Len(r.entry.chunks) = 0
    THEN {[st EXCEPT !.indices = r.indices,
                     !.skipped = Append(@, [path |-> cand.path, err |-> "AxisError"])],
          [st EXCEPT !.indices = r.indices,
                     !.indexed = Append(@, cand.path)]}
    ELSE {[indices |-> r.indices,
           rows |-> st.rows \o DocRows(r.entry, sims, order, k, c),
           indexed |-> st.indexed,
           skipped |-> st.skipped] : order \in ArgsortDesc(sims, 1..Len(sims))}
RankDoc(st, cand, c, r, sims, k) ==
    IF Len(r.entry.chunks) = 0
    THEN {[st EXCEPT !.indices = r.indices,
                     !.skipped = Append(@, [path |-> cand.path, err |-> "AxisError"])],
          [st EXCEPT !.indices = r.indices,
                     !.indexed = Append(@, cand.path)]}
    ELSE {[indices |-> r.indices,
           rows |-> st.rows \o DocRows(r.entry, sims, order, k, c),
           indexed |-> Append(st.indexed, cand.path),
           skipped |-> st.skipped] : order \in ArgsortDesc(sims, 1..Len(sims))}

\* TryDoc swallowing a failure without recording the document
TryDocSilent(st, cand, c, r, qv, top_k, ncand) ==
    IF ~r.ok
    THEN {st}
    ELSE RankDoc(st, cand, c, r, cosine_sim(qv, r.entry.embeddings),
                 k_local(Len(r.entry.chunks), top_k, ncand))

\* the try/except of lines 389-404 around the result r of ensure_indexed
TryDoc(st, cand, c, r, qv, top_k, ncand) ==
    IF ~r.ok
    THEN {[st EXCEPT !.skipped = Append(@, [path |-> cand.path, err |-> r.err])]}
    ELSE RankDoc(st, cand, c, r, cosine_sim(qv, r.entry.embeddings),
                 k_local(Len(r.entry.chunks), top_k, ncand))

\* one pass of the loop over the candidates (lines 388-404): the set of the
\* states it can leave
CandidateStep(st, fsys, cands, c, qv, top_k) ==
    TryDoc(st, cands[c], c, ensure_indexed(st.indices, fsys, cands[c]),
           qv, top_k, Len(cands))

RECURSIVE SearchLoop(_, _, _, _, _, _)
SearchLoop(st, fsys, cands, c, qv, top_k) ==
    IF c > Len(cands) THEN {st}
    ELSE UNION {SearchLoop(st2, fsys, cands, c + 1, qv, top_k) :
                    st2 \in CandidateStep(st, fsys, cands, c, qv, top_k)}

\* rows.sort(key=score, reverse=True): stable, equal scores keep their order
RECURSIVE InsertRow(_, _)
InsertRow(sorted, r) ==
    IF sorted = <<>> THEN <<r>>
    ELSE IF Head(sorted).score >= r.score
         THEN <<Head(sorted)>> \o InsertRow(Tail(sorted), r)
         ELSE <<r>> \o sorted

\* SortRows without reverse=True: ascending scores
RECURSIVE InsertRowAscending(_, _)
InsertRowAscending(sorted, r) ==
    IF sorted = <<>> THEN <<r>>
    ELSE IF Head(sorted).score <= r.score
         THEN <<Head(sorted)>> \o InsertRowAscending(Tail(sorted), r)
         ELSE <<r>> \o sorted

RECURSIVE SortRowsAscending(_)
SortRowsAscending(rows) ==
    IF rows = <<>> THEN <<>>
    ELSE InsertRowAscending(SortRowsAscending(SubSeq(rows, 1, Len(rows) - 1)),
                            rows[Len(rows)])

RECURSIVE SortRows(_)
SortRows(rows) ==
    IF rows = <<>> THEN <<>>
    ELSE InsertRow(SortRows(SubSeq(rows, 1, Len(rows) - 1)), rows[Len(rows)])

\* fused = rows[:top_k]
Fuse(rows, top_k) == Prefix(SortRows(rows), top_k)

\* max_score = fused[0]["score"] if fused else 0.0; max_score < MIN_ACCEPTED
LowConf(fused) == (IF fused # <<>> THEN fused[1].score ELSE 0) < MIN_ACCEPTED

\* lines 406-419: what search returns from the state the loop left
SearchResult(st, refs, fused) ==
    [raised |-> "none", indices |-> st.indices, candidates |-> refs,
     results |-> fused, low_confidence |-> LowConf(fused),
     indexed |-> st.indexed, skipped |-> st.skipped,
     encoded |-> 1, ensured |-> Len(st.indexed) + Len(st.skipped)]

SearchFrom(idx, fsys, route, qv, top_k) ==
    IF route.raised # "none"
    THEN {[raised |-> route.raised, indices |-> idx, encoded |-> 1, ensured |-> 0]}
    ELSE {SearchResult(st, route.refs, Fuse(st.rows, top_k)) :
            st \in SearchLoop([indices |-> idx, rows |-> <<>>, indexed |-> <<>>,
                               skipped |-> <<>>],
                              fsys, route.refs, 1, qv, top_k)}

\* search: every result it can return, with the store it leaves and the
\* work it did (calls of encode_query and of ensure_indexed)
search(idx, fsys, corpus, query, scope, files, top_k) ==
    SearchFrom(idx, fsys, route_candidates(query, scope, files, corpus),
               encode_query(query), top_k)

\* str.strip()
IsSpace(w) == w < 0

RECURSIVE lstrip(_)
lstrip(s) == IF s # <<>> /\ IsSpace(Head(s)) THEN lstrip(Tail(s)) ELSE s

RECURSIVE rstrip(_)
rstrip(s) ==
    IF s # <<>> /\ IsSpace(s[Len(s)]) THEN rstrip(SubSeq(s, 1, Len(s) - 1)) ELSE s

strip(s) == rstrip(lstrip(s))

(***************************************************************************)
(* compose_answer.  A snippet is the words of a chunk joined by single     *)
(* blanks.  A word below 100 is one character long; a word w of 100 or     *)
(* more stands for a word of w characters.  The answer is the sequence of  *)
(* the passages that "\n\n".join puts together; a passage is [text,        *)
(* partial, cut]: the whole words it keeps, the characters it keeps of a   *)
(* word cut in two, and whether the ellipsis follows.  rank, the position  *)
(* of the result a passage comes from, is a history field.                 *)
(***************************************************************************)
NoContext == "No encontre suficiente contexto"
SnippetChars == 600
MaxParts == 4

WordLen(w) == IF w < 100 THEN 1 ELSE w

\* len(s)
CharLen(text) ==
    IF text = <<>> THEN 0
    ELSE SumSeq([k \in 1..Len(text) |-> WordLen(text[k])]) + Len(text) - 1

\* the whole words of s[:600] that a blank follows within s[:600]
WordsBeforeLastBlank(s) ==
    CHOOSE m \in 0..Len(s) :
        /\ CharLen(SubSeq(s, 1, m)) < SnippetChars
        /\ m = Len(s) \/ CharLen(SubSeq(s, 1, m + 1)) >= SnippetChars

\* s[:600].rsplit(" ", 1)[0]: up to the last blank of s[:600], and all of
\* s[:600] when it holds no blank
Rsplit(s) ==
    IF WordsBeforeLastBlank(s) > 0
    THEN [text |-> SubSeq(s, 1, WordsBeforeLastBlank(s)), partial |-> 0]
    ELSE IF WordLen(s[1]) = SnippetChars THEN [text |-> <<s[1]>>, partial |-> 0]
    ELSE [text |-> <<>>, partial |-> SnippetChars]

\* Truncate appending the ellipsis to the first 600 characters as they are
TruncateAtLimit(s) ==
    IF CharLen(s) > SnippetChars
    THEN [text |-> SubSeq(s, 1, WordsBeforeLastBlank(s)),
          partial |-> IF WordsBeforeLastBlank(s) = 0 THEN SnippetChars
                      ELSE SnippetChars - CharLen(SubSeq(s, 1, WordsBeforeLastBlank(s))) - 1,
          cut |-> TRUE]
    ELSE [text |-> s, partial |-> 0, cut |-> FALSE]

\* if len(s) > 600: s = s[:600].rsplit(" ", 1)[0] + ellipsis
Truncate(s) ==
    IF CharLen(s) > SnippetChars
    THEN [text |-> Rsplit(s).text, partial |-> Rsplit(s).partial, cut |-> TRUE]
    ELSE [text |-> s, partial |-> 0, cut |-> FALSE]

\* parts.append(s) for the result of rank k
Passage(ranked, k) ==
    [text |-> Truncate(strip(ranked[k].snippet)).text,
     partial |-> Truncate(strip(ranked[k].snippet)).partial,
     cut |-> Truncate(strip(ranked[k].snippet)).cut, rank |-> k]

\* ComposeFrom without the test of seen_sources
RECURSIVE ComposeFromRepeating(_, _, _, _)
ComposeFromRepeating(ranked, k, seen, parts) ==
    IF k > Len(ranked) \/ Len(parts) >= MaxParts THEN parts
    ELSE ComposeFromRepeating(ranked, k + 1, seen, Append(parts, Passage(ranked, k)))

RECURSIVE ComposeFrom(_, _, _, _)
ComposeFrom(ranked, k, seen, parts) ==
    IF k > Len(ranked) \/ Len(parts) >= MaxParts THEN parts
    ELSE IF ranked[k].source \in seen
         THEN ComposeFrom(ranked, k + 1, seen, parts)
         ELSE ComposeFrom(ranked, k + 1, seen \cup {ranked[k].source},
                          Append(parts, Passage(ranked, k)))

compose_answer(ranked) ==
    IF ranked = <<>> THEN NoContext ELSE ComposeFrom(ranked, 1, {}, <<>>)

(***************************************************************************)
(* The tabular tool (tools/tool_tabular.py and tools/tabular/).  A line of *)
(* the CSV keeps the columns the modelled metrics read: the restaurant,    *)
(* the order, the month of its date (5 is 2025-05) and the net sale.  An   *)
(* optional argument that is None is "" (a text) or <<>> (a number, which  *)
(* is <<k>> when given).                                                   *)
(***************************************************************************)
top_k_default == 10
top_k_min == 5
top_k_max == 100
max_items == 128

\* the largest number of restaurants and of months in a CSV of the model
MaxGroups == 7
\* tabular_insights is called while the caches hold fewer entries than this
MaxCached == 2

Line(r, o, m, n) == [restaurant_id |-> r, order_id |-> o, month |-> m, net_sale |-> n]

\* the CSV of tests/test_tool_tabular.py: 2 restaurants, 3 orders, 2 months
Mini == <<Line(1, 1, 5, 85), Line(1, 1, 5, 170), Line(1, 2, 6, 127),
          Line(2, 10, 6, 255), Line(2, 10, 6, 102)>>

\* n restaurants with one order each, in n months, not in order of date
Spread(n) == [i \in 1..n |-> Line(i, 100 + i, ((i * 3) % n) + 1, ((i * 2) % 5) * 10)]

\* A CSV file is [exists, columns, lines]: its header and its lines.
CSV_PATH == "gastrosoft_sales_2025.csv"
CsvPaths == {CSV_PATH, "other.csv"}
NoCsv == [exists |-> FALSE, columns |-> "none", lines |-> <<>>]
BadCsv == [exists |-> TRUE, columns |-> "colA,colB", lines |-> <<>>]
CsvFile(lines) == [exists |-> TRUE, columns |-> "ALL_COLS", lines |-> lines]

CsvFiles == {CsvFile(<<>>), CsvFile(Mini), CsvFile(Spread(2)),
             CsvFile(Spread(MaxGroups))}

RECURSIVE SumNet(_, _)
SumNet(rows, field) ==
    IF rows = {} THEN 0
    ELSE LET x == CHOOSE x \in rows : TRUE
         IN  x[field] + SumNet(rows \ {x}, field)

MinOf(S) == CHOOSE m \in S : \A x \in S : m <= x

\* tuples of numbers of one length, compared as Python compares tuples
RECURSIVE LexLess(_, _)
LexLess(a, b) ==
    IF a = <<>> THEN FALSE
    ELSE IF Head(a) # Head(b) THEN Head(a) < Head(b)
    ELSE LexLess(Tail(a), Tail(b))

\* the rows of a set of <<key, row>> pairs by ascending key (keys differ)
RECURSIVE SortPairs(_)
SortPairs(P) ==
    IF P = {} THEN <<>>
    ELSE LET m == CHOOSE m \in P : \A x \in P : x = m \/ LexLess(m[1], x[1])
         IN  <<m[2]>> \o SortPairs(P \ {m})

Reverse(seq) == [k \in 1..Len(seq) |-> seq[Len(seq) + 1 - k]]

\* _LazyRepo.build_orders_from_lines: one order for each (restaurant, order)
build_orders_from_lines(lines) ==
    {LET mine == {k \in 1..Len(lines) :
                     /\ lines[k].restaurant_id = lines[i].restaurant_id
                     /\ lines[k].order_id = lines[i].order_id}
     IN  [restaurant_id |-> lines[i].restaurant_id,
          order_id |-> lines[i].order_id,
          month |-> MinOf({lines[k].month : k \in mine}),
          n_lines |-> Cardinality(mine),
          net_total |-> SumNet({[k |-> k, net_sale |-> lines[k].net_sale] : k \in mine},
                               "net_sale")]
     : i \in 1..Len(lines)}

\* _LazyRepo: nothing loaded yet (self._repo is None)
NotLoaded == [loaded |-> FALSE]

DataRepository(lines) ==
    [loaded |-> TRUE, lines |-> lines, orders |-> build_orders_from_lines(lines)]

\* _load_repo: an empty repository for a missing file; read_csv with
\* usecols=ALL_COLS raises on a file that lacks one of the columns
load_repo(file) ==
    IF ~file.exists THEN [raised |-> "none", repo |-> DataRepository(<<>>)]
    ELSE IF file.columns # "ALL_COLS"
         THEN [raised |-> "ValueError", repo |-> NotLoaded]
         ELSE [raised |-> "none", repo |-> DataRepository(file.lines)]

\* get_repo loading the file its configuration names at every call
get_repo_reloading(rp, file) ==
    [raised |-> load_repo(file).raised, repo |-> load_repo(file).repo, loads |-> 1]
\* _LazyRepo.get: what it returns or raises, self._repo after it, and the
\* calls of _load_repo it made
get_repo(rp, file) ==
    IF rp.loaded THEN [raised |-> "none", repo |-> rp, loads |-> 0]
    ELSE [raised |-> load_repo(file).raised, repo |-> load_repo(file).repo,
          loads |-> 1]

\* resolve_top_k (tk is not None): clamp between top_k_min and top_k_max
resolve_top_k(tk) ==
    IF tk = <<>> THEN top_k_default
    ELSE Max(top_k_min, Min(tk[1], top_k_max))

\* LRUCache: the OrderedDict as a sequence, least recently used first
NoCaches == [tops |-> <<>>, by_restaurant |-> <<>>, over_time |-> <<>>]

Without(store, key) == SelectSeq(store, LAMBDA e : e.key # key)

Holds(store, key) == \E k \in 1..Len(store) : store[k].key = key

ValueAt(store, key) == store[CHOOSE k \in 1..Len(store) : store[k].key = key].val

\* LRUCache.get on a key it holds, leaving the key where it is
lru_get_in_place(store, key) == store

\* LRUCache.get on a key it holds: the key becomes the most recent
lru_get(store, key) == Append(Without(store, key), [key |-> key, val |-> ValueAt(store, key)])

\* LRUCache.get: the value (None for a key it does not hold) and the store
\* after the call
get(store, key) ==
    IF Holds(store, key)
    THEN [hit |-> TRUE, val |-> ValueAt(store, key), store |-> lru_get(store, key)]
    ELSE [hit |-> FALSE, val |-> "None", store |-> store]

\* LRUCache.put of a cache built with CacheConfig(max_items=cap)
put(store, cap, key, val) ==
    LET added == Append(Without(store, key), [key |-> key, val |-> val])
    IN  IF Len(added) > cap THEN Tail(added) ELSE added

\* LRUCache.put of a cache built with the default CacheConfig
lru_put(store, key, val) == put(store, max_items, key, val)

\* LRUCache.clear
clear(store) == <<>>

\* get_or_compute on a cache of capacity cap: the value, and the store after
get_or_compute_in(store, cap, key, computed) ==
    IF get(store, key).hit
    THEN [val |-> get(store, key).val, store |-> get(store, key).store]
    ELSE [val |-> computed, store |-> put(get(store, key).store, cap, key, computed)]

\* get_or_compute: the value, and the store after the call
get_or_compute(store, key, computed) ==
    IF Holds(store, key)
    THEN [val |-> ValueAt(store, key), store |-> lru_get(store, key)]
    ELSE [val |-> computed, store |-> lru_put(store, key, computed)]

\* build_query_key with the handler's extras
build_query_key(q, handler) ==
    [handler |-> handler, mode |-> q.mode, time_grain |-> q.time_grain,
     sort_by |-> q.sort_by, sort_dir |-> q.sort_dir, top_k |-> q.top_k,
     scope |-> q.scope]

\* RestaurantsHandler: the KPIs of each restaurant
RestaurantRows(orders) ==
    {LET mine == {o \in orders : o.restaurant_id = r}
     IN  [restaurant_id |-> r, orders |-> Cardinality(mine),
          net_total |-> SumNet(mine, "net_total")]
     : r \in {o.restaurant_id : o \in orders}}

\* sort_values(by=[sort_by, "orders", restaurant_id],
\*             ascending=[not reverse, not reverse, True])
SortRestaurants(rows, sort_by, reverse) ==
    SortPairs({<<IF reverse THEN <<-row[sort_by], -row.orders, row.restaurant_id>>
                 ELSE <<row[sort_by], row.orders, row.restaurant_id>>, row>>
               : row \in rows})

\* RestaurantsHandler.run _compute
restaurants_compute(rp, q) ==
    LET sorted == SortRestaurants(RestaurantRows(rp.orders),
                                  IF q.sort_by = "" THEN "net_total" ELSE q.sort_by,
                                  q.sort_dir = "desc")
    IN  IF q.top_k # <<>> THEN Prefix(sorted, resolve_top_k(q.top_k)) ELSE sorted

\* _clone_without_sort_and_topk with scope_override
clone_without_sort_and_topk(q, scope) ==
    [q EXCEPT !.sort_by = "", !.sort_dir = "", !.top_k = <<>>, !.scope = scope]

ALLOWED_SORT_KEYS == {"orders", "n_lines", "items", "gross_total", "net_total",
                      "tax_total", "tip_total", "ticket_net_avg",
                      "ticket_net_median", "pct_tip_over_net", "pct_tax_over_net"}

\* sorted(base, key=_sort_key, reverse=reverse): the whole key is reversed
SortTops(base, desired_sort, reverse) ==
    LET asc == SortPairs({<<<<base[k][desired_sort], base[k].orders,
                              base[k].restaurant_id>>, base[k]>>
                          : k \in 1..Len(base)})
    IN  IF reverse THEN Reverse(asc) ELSE asc

\* TopsHandler.run _compute, lines 86-113, from the base rows
tops_from_base(base, q) ==
    IF base = <<>> THEN <<>>
    ELSE LET sorted == SortTops(base,
                                IF q.sort_by \in ALLOWED_SORT_KEYS THEN q.sort_by
                                ELSE "net_total",
                                q.sort_dir = "desc" \/ q.sort_dir = "")
         IN  Prefix(sorted, IF q.top_k # <<>> THEN resolve_top_k(q.top_k)
                            ELSE Len(sorted))

\* TopsHandler.run with scope "restaurant": the rows, and the caches after
tops_with_base(caches, q, key, base) ==
    [val |-> tops_from_base(base.val, q),
     caches |-> [caches EXCEPT !.by_restaurant = base.store,
                               !.tops = lru_put(caches.tops, key,
                                                tops_from_base(base.val, q))]]

tops_run(caches, rp, q) ==
    IF Holds(caches.tops, build_query_key(q, "tops"))
    THEN [val |-> ValueAt(caches.tops, build_query_key(q, "tops")),
          caches |-> [caches EXCEPT !.tops = lru_get(caches.tops,
                                                     build_query_key(q, "tops"))]]
    ELSE tops_with_base(caches, q, build_query_key(q, "tops"),
             get_or_compute(caches.by_restaurant,
                 build_query_key(clone_without_sort_and_topk(q, "restaurant"),
                                 "by_restaurant"),
                 restaurants_compute(rp, clone_without_sort_and_topk(q, "restaurant"))))

\* OverTimeHandler: the KPIs of each period
PeriodRows(orders) ==
    {LET mine == {o \in orders : o.month = m}
     IN  [period |-> m, orders |-> Cardinality(mine),
          net_total |-> SumNet(mine, "net_total")]
     : m \in {o.month : o \in orders}}

\* DataFrame.tail(n)
TailRows(seq, n) ==
    IF n = 0 THEN <<>>
    ELSE IF n > 0 THEN Slice(seq, Max(0, Len(seq) - n), Len(seq))
    ELSE Slice(seq, Min(-n, Len(seq)), Len(seq))

\* OverTimeHandler.run _compute: ascending by period_start, then the tail
over_time_compute(rp, q) ==
    LET sorted == SortPairs({<<<<row.period>>, row>> : row \in PeriodRows(rp.orders)})
    IN  IF q.top_k # <<>> THEN TailRows(sorted, resolve_top_k(q.top_k)) ELSE sorted

over_time_got(caches, got) ==
    [val |-> got.val, caches |-> [caches EXCEPT !.over_time = got.store]]

over_time_run(caches, rp, q) ==
    over_time_got(caches,
                  get_or_compute(caches.over_time, build_query_key(q, "over_time"),
                                 over_time_compute(rp, q)))

SUPPORTED_SORTS == {"orders", "gross_total", "net_total", "tax_total", "tip_total",
                    "ticket_net_avg"}

\* validate_query: the error it raises, or "none"
validate_query(q) ==
    IF q.mode = "over_time" /\ q.time_grain = "" THEN "InvalidParam"
    ELSE IF q.sort_by = "" /\ q.mode = "tops" THEN "UnsupportedSort"
    ELSE IF q.sort_by # "" /\ q.sort_by \notin SUPPORTED_SORTS THEN "UnsupportedSort"
    ELSE "none"

\* to_result and _normalize_result: the payload of a query that was answered
\* from the repository g.repo; given is the request as the caller made it
Answered(given, q, g, got) ==
    [payload |-> [op |-> "tabular", given |-> given, raised |-> "none", ok |-> TRUE,
                  mode |-> q.mode, top_k |-> resolve_top_k(q.top_k),
                  row_count |-> Len(got.val), data |-> got.val],
     repo |-> g.repo, cache |-> got.caches, loads |-> g.loads]

\* run_tabular_query, lines 37-64: the TabularResult built for an exception;
\* the error is a row of data, the payload has no field "error"
Failed(given, q, rows, g, caches) ==
    [payload |-> [op |-> "tabular", given |-> given, raised |-> "none", ok |-> FALSE,
                  mode |-> q.mode, row_count |-> 0, data |-> rows],
     repo |-> g.repo, cache |-> caches, loads |-> g.loads]

\* run_tabular_query, lines 31-35, on the result g of get_repo
run_with_repo(given, caches, g, q) ==
    IF g.raised # "none"
    THEN Failed(given, q, <<[error |-> "Unexpected error", detail |-> g.raised]>>,
                g, caches)
    ELSE Answered(given, q, g, IF q.mode = "tops" THEN tops_run(caches, g.repo, q)
                               ELSE over_time_run(caches, g.repo, q))

\* run_tabular_query: validation, repository, handler, payload
run_tabular_query(given, file, rp, caches, q) ==
    IF validate_query(q) # "none"
    THEN Failed(given, q, <<[error |-> validate_query(q)]>>,
                [repo |-> rp, loads |-> 0], caches)
    ELSE run_with_repo(given, caches, get_repo(rp, file), q)

\* _norm_mode and _norm_scope on the texts of the model (all in lower case)
norm_mode(x) ==
    CASE x = "ranking" -> "tops" [] x = "temporal" -> "over_time" [] OTHER -> x

norm_scope(x) ==
    CASE x = "by_restaurant" -> "restaurant" [] x = "producto" -> "product"
      [] OTHER -> x

\* the Literal types of TabularQuery
ModeLiteral == {"over_time", "by_restaurant", "by_product", "tops", "diagnostics"}
TimeGrainLiteral == {"day", "iso_week", "month"}
ScopeLiteral == {"restaurant", "product"}

\* TabularQuery(...): pydantic raises ValidationError for a field that is
\* not of its Literal type ("" is None, which the optional fields accept)
TabularQuery(q) ==
    IF /\ norm_mode(q.mode) \in ModeLiteral
       /\ q.time_grain \in TimeGrainLiteral \cup {""}
       /\ norm_scope(q.scope) \in ScopeLiteral \cup {""}
    THEN [raised |-> "none",
          q |-> [q EXCEPT !.mode = norm_mode(q.mode), !.scope = norm_scope(q.scope)]]
    ELSE [raised |-> "ValidationError", q |-> q]

\* the payload of lines 164 and 166
Invalid(q, what, rp, caches) ==
    [payload |-> [op |-> "tabular", given |-> q, raised |-> "none", ok |-> FALSE,
                  mode |-> norm_mode(q.mode), data |-> <<>>, error |-> what],
     repo |-> rp, cache |-> caches, loads |-> 0]

\* tabular_insights: the payload (or the exception), the repository and the
\* caches after it, and the calls of _load_repo it made
tabular_insights(file, rp, caches, q) ==
    IF q.sort_dir \notin {"asc", "desc"} THEN Invalid(q, "sort_dir", rp, caches)
    ELSE IF q.top_k # <<>> /\ q.top_k[1] <= 0 THEN Invalid(q, "top_k", rp, caches)
    ELSE IF TabularQuery(q).raised # "none"
    THEN [payload |-> [op |-> "tabular", given |-> q,
                       raised |-> TabularQuery(q).raised],
          repo |-> rp, cache |-> caches, loads |-> 0]
    ELSE run_tabular_query(q, file, rp, caches, TabularQuery(q).q)

\* the requests of the model
Request(mode, scope, time_grain, sort_by, sort_dir, top_k) ==
    [mode |-> mode, scope |-> scope, time_grain |-> time_grain,
     sort_by |-> sort_by, sort_dir |-> sort_dir, top_k |-> top_k]

TabTopKs == {<<>>, <<0>>, <<1>>, <<2>>, <<top_k_min + 1>>, <<MaxGroups + 1>>}

TabRequests ==
    {Request("tops", "restaurant", "", sb, sd, tk) :
        sb \in {"", "net_total"}, sd \in {"asc", "desc"}, tk \in TabTopKs}
    \cup {Request("over_time", "", tg, "", "desc", tk) :
            tg \in {"", "month"}, tk \in TabTopKs}

\* the tabular tool was not called
TabularUnused ==
    /\ csv = [p \in CsvPaths |-> NoCsv]
    /\ repo = NotLoaded
    /\ cache = NoCaches
    /\ loads = 0

(***************************************************************************)
(* The inputs of the model.                                                *)
(***************************************************************************)
\* query texts: a negative word stands for white space, and <<>> is the
\* empty text, which is also what run reads when the request has no query
\* (args.get("query") or "")
Queries == {<<>>, <<-1>>, <<0>>, <<-1, 1>>}
FileLists == {<<>>, <<"a.md">>, <<"b.pdf", "a.md">>, <<"c.docx", "d.txt">>,
              <<"a.md", "b.pdf", "c.docx">>}
\* the top_k argument, counted in halves (3 is 1.5, -2 is -1): the type
\* hint does not keep a caller from passing a number that is not whole
TopKArgs == (-2)..(2 * MaxTopK)
Corpora == {<<>>, <<"a.md", "b.pdf">>, <<"a.md", "b.pdf", "c.docx">>,
            <<"b.pdf", "d.txt">>}

NoCall == [op |-> "none"]

(***************************************************************************)
(* ToolAdapter: construction at import, and run.                           *)
(***************************************************************************)
\* _ensure_defaults_exist
MissingDefaultsNone(fsys, corpus) == {}
MissingDefaults(fsys, corpus) == {k \in 1..Len(corpus) : ~fsys[corpus[k]].exists}

\* _adapter_singleton = ToolAdapter()
Construct ==
    /\ pc = "import"
    /\ IF MissingDefaults(fs, DEFAULT_FILES) # {}
       THEN /\ pc' = "failed"
            /\ indices' = indices
       ELSE /\ pc' = "ready"
            /\ indices' = ensure_all_indexed(indices, fs, DEFAULT_FILES)
    /\ out' = NoCall
    /\ UNCHANGED <<fs, DEFAULT_FILES, MIN_ACCEPTED, tabvars>>

\* if not query: raise ValueError
IsBlankNever(query) == FALSE
IsBlank(query) == strip(query) = <<>>

\* int() of a number given in halves: the fraction is dropped, towards zero
int(h) == IF h >= 0 THEN h \div 2 ELSE -((-h) \div 2)

\* tool_unstructured: use_top_k = None if not top_k else int(top_k), and
\* args["top_k"] is set unless it is None; 0 stands for the absent top_k
use_top_k(h) == IF h = 0 THEN 0 ELSE int(h)

\* run: int(args.get("top_k") or TOP_K_DEFAULT)
EffectiveTopK(arg) == IF arg = 0 THEN TOP_K_DEFAULT ELSE arg

\* run raising ValueError for a blank query, before search is called
Rejected(given) ==
    [op |-> "run", raised |-> "ValueError", query |-> strip(given.query),
     given |-> given, encoded |-> 0, ensured |-> 0]

\* what run returns (or raises) for the result r of search
Response(r, given, scope, files, top_k) ==
    IF r.raised # "none"
    THEN [op |-> "run", raised |-> r.raised, query |-> strip(given.query),
          scope |-> scope, files |-> files, given |-> given,
          encoded |-> r.encoded, ensured |-> r.ensured]
    ELSE [op |-> "run", raised |-> "none", query |-> strip(given.query),
          scope |-> scope, files |-> files, given |-> given,
          encoded |-> r.encoded, ensured |-> r.ensured,
          top_k |-> top_k, candidates |-> r.candidates, results |-> r.results,
          low_confidence |-> r.low_confidence, indexed |-> r.indexed,
          skipped |-> r.skipped, best_answer |-> compose_answer(r.results)]

\* the (scope, files) arguments: files is read only with scope = "files"
ScopeArgs == {<<"auto", <<>> >>} \cup {<<"files", fl>> : fl \in FileLists}

\* ToolAdapter.run (through tool_unstructured): validation, search, compose
Run ==
    /\ pc = "ready"
    /\ out = NoCall
    /\ \E query \in Queries, sa \in ScopeArgs, h \in TopKArgs :
         IF IsBlank(query)
         THEN /\ out' = Rejected([query |-> query, top_k |-> h])
              /\ indices' = indices
         ELSE \E r \in search(indices, fs, DEFAULT_FILES, strip(query), sa[1], sa[2],
                              EffectiveTopK(use_top_k(h))) :
                /\ indices' = r.indices
                /\ out' = Response(r, [query |-> query, top_k |-> h], sa[1], sa[2],
                                   EffectiveTopK(use_top_k(h)))
    /\ UNCHANGED <<fs, DEFAULT_FILES, MIN_ACCEPTED, pc, tabvars>>

\* the caller takes the response; the adapter is ready for the next call
Return ==
    /\ pc = "ready"
    /\ out # NoCall
    /\ out' = NoCall
    /\ UNCHANGED <<fs, indices, DEFAULT_FILES, MIN_ACCEPTED, pc, tabvars>>

\* the files and the configured corpus the process starts with
Init ==
    /\ fs \in [Paths -> {NoFile} \cup {File(0, v) : v \in Versions}]
    /\ fs["d.txt"] = File(0, 1)
    /\ DEFAULT_FILES \in Corpora
    /\ MIN_ACCEPTED \in MinAcceptedSettings
    /\ indices = <<>>
    /\ pc = "import"
    /\ out = NoCall
    /\ TabularUnused

Next == Construct \/ Run \/ Return

Spec == Init /\ [][Next]_vars

(***************************************************************************)
(* The IndexStore on its own: ensure_indexed called for any document       *)
(* while the file a.md is rewritten, touched and deleted.                  *)
(***************************************************************************)
Mutable == {"a.md"}

EnsureIndexedCall ==
    /\ pc = "store"
    /\ \E p \in Indexable :
         LET r == ensure_indexed(indices, fs, [path |-> p, kind |-> detect_kind(p)])
         IN  /\ indices' = r.indices
             /\ out' = [op |-> "ensure_indexed", path |-> p, ok |-> r.ok,
                        err |-> r.err, entry |-> r.entry,
                        extracted |-> r.extracted, embedded |-> r.embedded]
    /\ UNCHANGED <<fs, DEFAULT_FILES, MIN_ACCEPTED, pc, tabvars>>

WriteFile ==
    /\ pc = "store"
    /\ \E p \in Mutable, t \in 0..MaxTick, v \in Versions :
         /\ fs[p] # File(t, v)
         /\ fs' = [fs EXCEPT ![p] = File(t, v)]
    /\ out' = NoCall
    /\ UNCHANGED <<indices, DEFAULT_FILES, MIN_ACCEPTED, pc, tabvars>>

DeleteFile ==
    /\ pc = "store"
    /\ \E p \in Mutable :
         /\ fs[p].exists
         /\ fs' = [fs EXCEPT ![p] = NoFile]
    /\ out' = NoCall
    /\ UNCHANGED <<indices, DEFAULT_FILES, MIN_ACCEPTED, pc, tabvars>>

InitStore ==
    /\ fs \in [Paths -> {NoFile} \cup {File(0, v) : v \in Versions}]
    /\ \A p \in Paths \ Mutable : fs[p] \in {NoFile, File(0, 1)}
    /\ fs["d.txt"] = File(0, 1)
    /\ DEFAULT_FILES = <<>>
    /\ MIN_ACCEPTED = DefaultMinAccepted
    /\ indices = <<>>
    /\ pc = "store"
    /\ out = NoCall
    /\ TabularUnused

NextStore == EnsureIndexedCall \/ WriteFile \/ DeleteFile

SpecStore == InitStore /\ [][NextStore]_vars

(***************************************************************************)
(* ensure_indexed called from several threads on the one IndexStore of     *)
(* _adapter_singleton.  The method holds no lock, so the threads           *)
(* interleave between its statements.  Here pc maps each caller to the     *)
(* locals of its call: where it is (at) and what it has built so far.      *)
(* The store may start with an entry built from an earlier content of      *)
(* a.md, which the file no longer has.                                     *)
(***************************************************************************)
NumCallers == 2
Callers == 1..NumCallers
ConcPaths == {"a.md", "b.pdf"}

Idle == [at |-> "idle"]

\* lines 307-314: existence, etag, lookup of the stored entry
StartCall(idx, fsys, p) ==
    IF ~fsys[p].exists
    THEN [at |-> "failed", path |-> p, err |-> "FileNotFoundError", was |-> "idle"]
    ELSE IF IsHit(idx, p, etag_local(fsys[p]))
    THEN [at |-> "done", path |-> p, entry |-> idx[p], extracted |-> 0]
    ELSE [at |-> "miss", path |-> p, kind |-> detect_kind(p),
          etag |-> etag_local(fsys[p])]

\* lines 317-319: extract_text and presection
Extracted(call, f) ==
    IF ~f.exists \/ ExtractFails(f)
    THEN [at |-> "failed", path |-> call.path, err |-> "ExtractError", was |-> "miss"]
    ELSE [at |-> "extracted", path |-> call.path, kind |-> call.kind,
          etag |-> call.etag, src |-> f,
          sections |-> presection(RawSections(f.ver))]

\* lines 321-322: Chunker(cfg).chunk(sections, path, kind)
Chunked(call) ==
    [at |-> "chunked", path |-> call.path, kind |-> call.kind, etag |-> call.etag,
     src |-> call.src, chunks |-> chunk(call.sections, call.path, call.kind)]

\* line 323: encode_texts([c["text"] for c in chunks])
Embedded(call) ==
    [at |-> "embedded", path |-> call.path, kind |-> call.kind, etag |-> call.etag,
     src |-> call.src, chunks |-> call.chunks,
     embeddings |-> encode_texts([k \in 1..Len(call.chunks) |-> call.chunks[k].text])]

\* line 325: the IndexedDoc built from the locals
EntryOf(call) ==
    [etag |-> call.etag, kind |-> call.kind, chunks |-> call.chunks,
     embeddings |-> call.embeddings, src |-> call.src]

\* StoreAfter assigning the entry as soon as the chunks are cut
StoreAfterChunking(idx, call) ==
    IF call.at = "chunked"
    THEN StoreEntry(idx, call.path,
                    [etag |-> call.etag, kind |-> call.kind, chunks |-> call.chunks,
                     embeddings |-> <<>>, src |-> call.src])
    ELSE IF call.at = "embedded" THEN StoreEntry(idx, call.path, EntryOf(call))
    ELSE idx

\* the store after the next statement of a call: only the statement that
\* follows the embedding (line 326) assigns to self.indices
StoreAfter(idx, call) ==
    IF call.at = "embedded" THEN StoreEntry(idx, call.path, EntryOf(call)) ELSE idx

CallBegin(c) ==
    /\ pc[c].at = "idle"
    /\ \E p \in ConcPaths : pc' = [pc EXCEPT ![c] = StartCall(indices, fs, p)]
    /\ indices' = StoreAfter(indices, pc[c])
    /\ UNCHANGED <<fs, DEFAULT_FILES, MIN_ACCEPTED, out, tabvars>>

CallExtract(c) ==
    /\ pc[c].at = "miss"
    /\ pc' = [pc EXCEPT ![c] = Extracted(pc[c], fs[pc[c].path])]
    /\ indices' = StoreAfter(indices, pc[c])
    /\ UNCHANGED <<fs, DEFAULT_FILES, MIN_ACCEPTED, out, tabvars>>

CallChunk(c) ==
    /\ pc[c].at = "extracted"
    /\ pc' = [pc EXCEPT ![c] = Chunked(pc[c])]
    /\ indices' = StoreAfter(indices, pc[c])
    /\ UNCHANGED <<fs, DEFAULT_FILES, MIN_ACCEPTED, out, tabvars>>

CallEmbed(c) ==
    /\ pc[c].at = "chunked"
    /\ pc' = [pc EXCEPT ![c] = Embedded(pc[c])]
    /\ indices' = StoreAfter(indices, pc[c])
    /\ UNCHANGED <<fs, DEFAULT_FILES, MIN_ACCEPTED, out, tabvars>>

\* lines 325-328: build the IndexedDoc, assign it, return it
CallStore(c) ==
    /\ pc[c].at = "embedded"
    /\ pc' = [pc EXCEPT ![c] = [at |-> "done", path |-> pc[c].path,
                                entry |-> EntryOf(pc[c]), extracted |-> 1]]
    /\ indices' = StoreAfter(indices, pc[c])
    /\ UNCHANGED <<fs, DEFAULT_FILES, MIN_ACCEPTED, out, tabvars>>

\* an exception raised in the thread while it extracts, chunks or embeds
\* (a failing encoder, a cancelled request): the call is left at once
CallInterrupt(c) ==
    /\ pc[c].at \in {"miss", "extracted", "chunked", "embedded"}
    /\ pc' = [pc EXCEPT ![c] = [at |-> "failed", path |-> pc[c].path,
                                err |-> "Interrupted", was |-> pc[c].at]]
    /\ indices' = indices
    /\ UNCHANGED <<fs, DEFAULT_FILES, MIN_ACCEPTED, out, tabvars>>

\* the caller has its entry or its exception and may call again
CallReturn(c) ==
    /\ pc[c].at \in {"done", "failed"}
    /\ pc' = [pc EXCEPT ![c] = Idle]
    /\ UNCHANGED <<fs, indices, DEFAULT_FILES, MIN_ACCEPTED, out, tabvars>>

\* the earlier contents of a.md the store may hold an entry of
EarlierFiles == {NoFile, File(0, 1), File(0, 2)}

InitConc ==
    /\ fs \in [Paths -> {NoFile} \cup {File(t, v) : t \in {0, MaxTick}, v \in Versions}]
    /\ fs["a.md"] \in {NoFile} \cup {File(MaxTick, v) : v \in Versions}
    /\ fs["b.pdf"] = File(0, 1)
    /\ fs["c.docx"] = NoFile
    /\ fs["d.txt"] = File(0, 1)
    /\ DEFAULT_FILES = <<>>
    /\ MIN_ACCEPTED = DefaultMinAccepted
    /\ \E prev \in EarlierFiles :
          indices = IF prev.exists
                    THEN StoreEntry(<<>>, "a.md", BuildIndex(prev, "a.md", "md"))
                    ELSE <<>>
    /\ pc = [c \in Callers |-> Idle]
    /\ out = NoCall
    /\ TabularUnused

NextConc ==
    \E c \in Callers :
        \/ CallBegin(c)
        \/ CallExtract(c)
        \/ CallChunk(c)
        \/ CallEmbed(c)
        \/ CallStore(c)
        \/ CallInterrupt(c)
        \/ CallReturn(c)

SpecConc == InitConc /\ [][NextConc]_vars

(***************************************************************************)
(* The tabular tool: tabular_insights called again and again on one CSV,   *)
(* with the lazy repository and the handlers' caches of the process.       *)
(***************************************************************************)
CachedEntries(caches) ==
    Len(caches.tops) + Len(caches.by_restaurant) + Len(caches.over_time)

TabularCall ==
    /\ pc = "tabular"
    /\ CachedEntries(cache) < MaxCached
    /\ \E q \in TabRequests :
         LET r == tabular_insights(csv[CSV_PATH], repo, cache, q)
         IN  /\ out' = r.payload
             /\ repo' = r.repo
             /\ cache' = r.cache
             /\ loads' = loads + r.loads
    /\ UNCHANGED <<fs, indices, DEFAULT_FILES, MIN_ACCEPTED, pc, csv>>

InitTab ==
    /\ fs = [p \in Paths |-> NoFile]
    /\ indices = <<>>
    /\ DEFAULT_FILES = <<>>
    /\ MIN_ACCEPTED = DefaultMinAccepted
    /\ pc = "tabular"
    /\ out = NoCall
    /\ csv \in {[p \in CsvPaths |-> IF p = CSV_PATH THEN f ELSE NoCsv] : f \in CsvFiles}
    /\ repo = NotLoaded
    /\ cache = NoCaches
    /\ loads = 0

NextTab == TabularCall

SpecTab == InitTab /\ [][NextTab]_vars

(***************************************************************************)
(* The tabular tool and its files: tabular_insights, which reads the CSV   *)
(* of DEFAULT_CFG, and get_repo called with a configuration of the         *)
(* caller's, while the files are replaced on disk between the calls.  out  *)
(* is what the last step returned.                                         *)
(***************************************************************************)
\* _load_repo is called at most this often while nothing is loaded
MaxLoads == 2

RepoFiles == {NoCsv, BadCsv, CsvFile(Mini), CsvFile(Spread(2))}

RepoRequests ==
    {Request("tops", "restaurant", "", "net_total", "desc", <<>>),
     Request("ranking", "by_restaurant", "", "net_total", "desc", <<>>),
     Request("tops", "restaurant", "", "", "desc", <<>>),
     Request("over_time", "", "month", "", "desc", <<>>),
     Request("no_such_mode", "", "", "", "desc", <<>>),
     Request("no_such_mode", "", "", "", "desc", <<0>>)}

InsightsCall ==
    /\ pc = "repo"
    /\ repo.loaded \/ loads < MaxLoads
    /\ \E q \in RepoRequests :
         LET r == tabular_insights(csv[CSV_PATH], repo, cache, q)
         IN  /\ out' = r.payload
             /\ repo' = r.repo
             /\ cache' = r.cache
             /\ loads' = loads + r.loads
    /\ UNCHANGED <<fs, indices, DEFAULT_FILES, MIN_ACCEPTED, pc, csv>>

\* get_repo(AppConfig(csv_path=path))
GetRepoCall ==
    /\ pc = "repo"
    /\ repo.loaded \/ loads < MaxLoads
    /\ \E path \in CsvPaths :
         LET g == get_repo(repo, csv[path])
         IN  /\ out' = [op |-> "get_repo", csv_path |-> path, raised |-> g.raised,
                        returned |-> g.repo]
             /\ repo' = g.repo
             /\ loads' = loads + g.loads
    /\ UNCHANGED <<fs, indices, DEFAULT_FILES, MIN_ACCEPTED, pc, csv, cache>>

\* another process writes, replaces or deletes a CSV file
ReplaceCsv ==
    /\ pc = "repo"
    /\ \E path \in CsvPaths, f \in RepoFiles :
         /\ f # csv[path]
         /\ csv' = [csv EXCEPT ![path] = f]
    /\ out' = [op |-> "replace_csv"]
    /\ UNCHANGED <<fs, indices, DEFAULT_FILES, MIN_ACCEPTED, pc, repo, cache, loads>>

InitRepo ==
    /\ fs = [p \in Paths |-> NoFile]
    /\ indices = <<>>
    /\ DEFAULT_FILES = <<>>
    /\ MIN_ACCEPTED = DefaultMinAccepted
    /\ pc = "repo"
    /\ out = NoCall
    /\ csv \in [CsvPaths -> RepoFiles]
    /\ repo = NotLoaded
    /\ cache = NoCaches
    /\ loads = 0

NextRepo == InsightsCall \/ GetRepoCall \/ ReplaceCsv

SpecRepo == InitRepo /\ [][NextRepo]_vars

(***************************************************************************)
(* The Chunker alone: a Chunker built with any configuration (a chunk size *)
(* of at least one word, an overlap that may reach or exceed it), and      *)
(* chunk called on any list of sections.  The word 10 * i + j is the j-th  *)
(* word of section i, so a chunk shows where its words come from.          *)
(***************************************************************************)
MaxCfgTokens == 4
MaxSectionWords == 5
MaxSections == 2

ChunkConfigs ==
    {[tokens |-> t, overlap |-> o] : t \in 1..MaxCfgTokens, o \in 0..(MaxCfgTokens + 1)}

SectionText(i, n) == [j \in 1..n |-> 10 * i + j]

SectionLists ==
    UNION {{[i \in 1..m |-> SectionText(i, lens[i])] :
                lens \in [1..m -> 0..MaxSectionWords]} : m \in 0..MaxSections}

\* Chunker.chunk(sections, path, kind) with the configuration of __init__
ChunkCall ==
    /\ pc.at = "chunker"
    /\ \E sections \in SectionLists :
         out' = [op |-> "chunk", sections |-> sections,
                 chunks |-> ChunkFrom(sections, "a.md", pc.cfg, 1)]
    /\ UNCHANGED <<fs, indices, DEFAULT_FILES, MIN_ACCEPTED, pc, tabvars>>

\* Chunker(cfg)
InitChunk ==
    /\ fs = [p \in Paths |-> NoFile]
    /\ indices = <<>>
    /\ DEFAULT_FILES = <<>>
    /\ MIN_ACCEPTED = DefaultMinAccepted
    /\ pc \in {[at |-> "chunker", cfg |-> cfg] : cfg \in ChunkConfigs}
    /\ out = NoCall
    /\ TabularUnused

NextChunk == ChunkCall

SpecChunk == InitChunk /\ [][NextChunk]_vars
(***************************************************************************)
(* The QueryEngine alone: search called with a list of files and a top_k   *)
(* of its own.  The response keeps, as a history field, the rows the loop  *)
(* over the candidates collected before the global ranking cut them.       *)
(***************************************************************************)
MaxRankTopK == 6

RankFileLists == {<<"a.md">>, <<"b.pdf", "a.md">>, <<"a.md", "b.pdf", "c.docx">>}
RankQueries == {<<0>>, <<1>>}

LoopStart(idx) == [indices |-> idx, rows |-> <<>>, indexed |-> <<>>, skipped |-> <<>>]

\* QueryEngine.search(query, "files", files, top_k)
SearchCall ==
    /\ pc = "engine"
    /\ out = NoCall
    /\ \E files \in RankFileLists, query \in RankQueries, top_k \in 1..MaxRankTopK :
         \E st \in SearchLoop(LoopStart(indices), fs,
                              route_candidates(query, "files", files, <<>>).refs,
                              1, encode_query(query), top_k) :
            /\ indices' = st.indices
            /\ out' = [op |-> "search", query |-> query, top_k |-> top_k,
                       candidates |-> route_candidates(query, "files", files, <<>>).refs,
                       rows |-> st.rows, results |-> Fuse(st.rows, top_k),
                       low_confidence |-> LowConf(Fuse(st.rows, top_k)),
                       indexed |-> st.indexed, skipped |-> st.skipped]
    /\ UNCHANGED <<fs, DEFAULT_FILES, MIN_ACCEPTED, pc, tabvars>>

\* the caller takes the result
SearchReturn ==
    /\ pc = "engine"
    /\ out # NoCall
    /\ out' = NoCall
    /\ UNCHANGED <<fs, indices, DEFAULT_FILES, MIN_ACCEPTED, pc, tabvars>>

InitRank ==
    /\ fs \in [Paths -> {NoFile, File(0, 1), File(0, 2), File(0, 3)}]
    /\ fs["a.md"] \in {File(0, 1), File(0, 2)}
    /\ fs["b.pdf"] \in {NoFile, File(0, 2)}
    /\ fs["c.docx"] \in {File(0, 2), File(0, 3)}
    /\ fs["d.txt"] = NoFile
    /\ indices = <<>>
    /\ DEFAULT_FILES = <<>>
    /\ MIN_ACCEPTED = DefaultMinAccepted
    /\ pc = "engine"
    /\ out = NoCall
    /\ TabularUnused

NextRank == SearchCall \/ SearchReturn

SpecRank == InitRank /\ [][NextRank]_vars
(***************************************************************************)
(* compose_answer alone, on any ranked list of results.  The snippets are  *)
(* texts as the chunker makes them: words joined by single blanks.         *)
(***************************************************************************)
MaxRanked == 6

\* a snippet of few characters, of exactly 600, of 601 in two words, of one
\* word of 601, of 602 with a word that ends at the limit, and of a word of
\* 600 followed by another
SnippetKinds ==
    << <<0, 1>>,
       <<SnippetChars \div 2, SnippetChars \div 2 - 1>>,
       <<SnippetChars \div 2, SnippetChars \div 2>>,
       <<SnippetChars + 1>>,
       <<SnippetChars - 2, 0, 0>>,
       <<SnippetChars, 0>> >>

\* The sources of a ranked list: each result opens a new source, or comes
\* from the first source again, or from the source of the result before.
RECURSIVE SourceAt(_, _)
SourceAt(how, k) ==
    IF k = 1 \/ how[k] = "new"
    THEN 1 + Cardinality({j \in 2..k : how[j] = "new"})
    ELSE IF how[k] = "first" THEN 1
    ELSE SourceAt(how, k - 1)

\* the lists search can return: the scores do not increase; the source
\* decides the snippet, the sources taking the kinds of snippet in turn
RankedList(how, turn) ==
    [k \in 1..Len(how) |->
        [source |-> <<"a.md", SourceAt(how, k)>>, score |-> 100 - k,
         snippet |-> SnippetKinds[((SourceAt(how, k) + turn) % Len(SnippetKinds)) + 1]]]

RankedLists ==
    UNION {{RankedList(how, turn) :
                how \in [1..n -> {"new", "first", "before"}],
                turn \in 1..Len(SnippetKinds)} : n \in 0..MaxRanked}

\* QueryEngine.compose_answer(ranked)
ComposeCall ==
    /\ pc.at = "compose"
    /\ out = NoCall
    /\ out' = [op |-> "compose_answer", answer |-> compose_answer(pc.ranked)]
    /\ UNCHANGED <<fs, indices, DEFAULT_FILES, MIN_ACCEPTED, pc, tabvars>>

InitCompose ==
    /\ fs = [p \in Paths |-> NoFile]
    /\ indices = <<>>
    /\ DEFAULT_FILES = <<>>
    /\ MIN_ACCEPTED = DefaultMinAccepted
    /\ pc \in {[at |-> "compose", ranked |-> r] : r \in RankedLists}
    /\ out = NoCall
    /\ TabularUnused

NextCompose == ComposeCall

SpecCompose == InitCompose /\ [][NextCompose]_vars
(***************************************************************************)
(* One LRUCache alone, built with any capacity and then used through get,  *)
(* put, clear and get_or_compute.  Here cache is [max_items, store, used]: *)
(* used, the keys in the order of their last use (the oldest first), is a  *)
(* history field that no operation reads.                                  *)
(***************************************************************************)
MaxCapacity == 2

LruKeys == 1..(MaxCapacity + 1)
LruValues == {10, 20}

\* the history after key was used
Touch(used, key) == Append(SelectSeq(used, LAMBDA k : k # key), key)

\* LRUCache.get(key)
LruGet ==
    /\ pc = "lru"
    /\ \E key \in LruKeys :
         /\ out' = [op |-> "get", key |-> key, val |-> get(cache.store, key).val]
         /\ cache' = [cache EXCEPT !.store = get(cache.store, key).store,
                                   !.used = IF get(cache.store, key).hit
                                            THEN Touch(@, key) ELSE @]
    /\ UNCHANGED <<fs, indices, DEFAULT_FILES, MIN_ACCEPTED, pc, csv, repo, loads>>

\* LRUCache.put(key, val)
LruPut ==
    /\ pc = "lru"
    /\ \E key \in LruKeys, val \in LruValues :
         /\ out' = [op |-> "put", key |-> key, val |-> val]
         /\ cache' = [cache EXCEPT !.store = put(@, cache.max_items, key, val),
                                   !.used = Touch(@, key)]
    /\ UNCHANGED <<fs, indices, DEFAULT_FILES, MIN_ACCEPTED, pc, csv, repo, loads>>

\* LRUCache.clear()
LruClear ==
    /\ pc = "lru"
    /\ out' = [op |-> "clear"]
    /\ cache' = [cache EXCEPT !.store = clear(@)]
    /\ UNCHANGED <<fs, indices, DEFAULT_FILES, MIN_ACCEPTED, pc, csv, repo, loads>>

\* get_or_compute(cache, key, compute_fn)
LruGetOrCompute ==
    /\ pc = "lru"
    /\ \E key \in LruKeys, val \in LruValues :
         LET r == get_or_compute_in(cache.store, cache.max_items, key, val)
         IN  /\ out' = [op |-> "get_or_compute", key |-> key, computed |-> val,
                        val |-> r.val]
             /\ cache' = [cache EXCEPT !.store = r.store, !.used = Touch(@, key)]
    /\ UNCHANGED <<fs, indices, DEFAULT_FILES, MIN_ACCEPTED, pc, csv, repo, loads>>

\* LRUCache(CacheConfig(max_items=cap))
InitLRU ==
    /\ fs = [p \in Paths |-> NoFile]
    /\ indices = <<>>
    /\ DEFAULT_FILES = <<>>
    /\ MIN_ACCEPTED = DefaultMinAccepted
    /\ pc = "lru"
    /\ out = NoCall
    /\ csv = [p \in CsvPaths |-> NoCsv]
    /\ repo = NotLoaded
    /\ loads = 0
    /\ cache \in {[max_items |-> cap, store |-> <<>>, used |-> <<>>] :
                     cap \in 0..MaxCapacity}

NextLRU == LruGet \/ LruPut \/ LruClear \/ LruGetOrCompute

SpecLRU == InitLRU /\ [][NextLRU]_vars
(***************************************************************************)
(* Properties.                                                             *)
(***************************************************************************)
\* a run that returned a response
Returned == out.op = "run" /\ out.raised = "none"

\* a step of ensure_indexed for path p
IsCallFor(p) == out'.op = "ensure_indexed" /\ out'.path = p

PathsOf(refs) == [k \in 1..Len(refs) |-> refs[k].path]

\* C1: every response of run holds at most top_k results, whatever top_k
\* the call accepted (stated for the responses that hold a result).
C1_AtMostTopK == (Returned /\ out.results # <<>>) => Len(out.results) <= out.top_k

\* C2: the results are sorted by non-increasing score.
C2_SortedByScore ==
    Returned => \A k \in 1..(Len(out.results) - 1) :
                    out.results[k].score >= out.results[k + 1].score

C2_Witness ==
    /\ Returned
    /\ Len(out.candidates) >= 2
    /\ Len(out.results) >= 4
    /\ out.results[1].score > out.results[Len(out.results)].score
    /\ \E k \in 1..(Len(out.results) - 1) :
          out.results[k].cand > out.results[k + 1].cand

\* C3: of two results with equal scores the one produced earlier comes
\* first: the earlier candidate document, and within one document the
\* smaller chunk index.
C3_StableTieBreak ==
    Returned => \A k \in 1..Len(out.results), m \in 1..Len(out.results) :
                    (k < m /\ out.results[k].score = out.results[m].score)
                        => \/ out.results[k].cand < out.results[m].cand
                           \/ /\ out.results[k].cand = out.results[m].cand
                              /\ out.results[k].idx < out.results[m].idx

\* C4: ensure_indexed for a path whose entry carries the file's current
\* etag calls neither the extractor nor the embedder, returns the stored
\* entry, leaves the store as it was, and the next call finds the same hit.
C4_CacheHitDoesNoWork ==
    [][\A p \in Indexable :
          (/\ IsCallFor(p)
           /\ fs[p].exists
           /\ p \in DOMAIN indices
           /\ indices[p].etag = etag_local(fs[p]))
          => /\ out'.ok
             /\ out'.extracted = 0
             /\ out'.embedded = 0
             /\ out'.entry = indices[p]
             /\ indices' = indices
             /\ indices'[p].etag = etag_local(fs'[p])]_vars

C4_Witness ==
    /\ out.op = "ensure_indexed"
    /\ out.ok
    /\ out.extracted = 0
    /\ Len(out.entry.chunks) > 0
    /\ Cardinality(DOMAIN indices) >= 2

\* C5: when the file's modification time or size differs from what it was
\* when the entry was built, a returning ensure_indexed computes a different
\* etag and stores an entry built from the file as it is now.
C5_ChangeIsDetected ==
    [][\A p \in Indexable :
          (/\ IsCallFor(p)
           /\ out'.ok
           /\ fs[p].exists
           /\ p \in DOMAIN indices
           /\ \/ fs[p].tick # indices[p].src.tick
              \/ SizeOf(fs[p].ver) # SizeOf(indices[p].src.ver))
          => /\ out'.entry.etag # indices[p].etag
             /\ indices'[p].chunks =
                    chunk(presection(RawSections(fs[p].ver)), p, detect_kind(p))]_vars

\* C6 as specified: after a returning ensure_indexed the store holds at
\* most MaxDocs entries (above it, it would have been cut to MaxDocs - 2).
C6_EvictsAboveCapacity ==
    (out.op = "ensure_indexed" /\ out.ok) => Cardinality(DOMAIN indices) <= MaxDocs

\* C6 as amended: no step removes an entry from the store, so every
\* document indexed stays, and the store grows past any capacity.
C6_NeverEvicts ==
    [][/\ \A p \in DOMAIN indices : p \in DOMAIN indices'
       /\ \A p \in Indexable : (IsCallFor(p) /\ out'.ok) => p \in DOMAIN indices']_vars

C6_Witness ==
    /\ out.op = "ensure_indexed"
    /\ out.ok
    /\ out.extracted = 1
    /\ Cardinality(DOMAIN indices) = MaxDocs + 1

\* C7: every stored IndexedDoc has one embedding row for each chunk, and
\* row i is the vector of the text of chunk i.
C7_RowsMatchChunks ==
    \A p \in DOMAIN indices :
        /\ Len(indices[p].embeddings) = Len(indices[p].chunks)
        /\ \A k \in 1..Len(indices[p].chunks) :
              indices[p].embeddings[k] = Embed(indices[p].chunks[k].text)

C7_Witness ==
    /\ \E p \in DOMAIN indices : Len(indices[p].chunks) = 0
    /\ \E p \in DOMAIN indices : Len(indices[p].chunks) >= 2
    /\ \E p \in DOMAIN indices : indices[p].src # fs[p]

\* C8 as specified: under "auto" a query holding a routing keyword is
\* searched in the documents the matching rules select.
C8_KeywordSelectsTargets ==
    (Returned /\ out.scope = "auto" /\ KeywordTargets(out.query) # {})
        => Range(PathsOf(out.candidates)) = KeywordTargets(out.query) \cap Range(DEFAULT_FILES)

\* C8 as amended: under "auto" a query holding a routing keyword is
\* searched in the whole configured corpus, like any other query.
C8_KeywordSearchesCorpus ==
    (Returned /\ out.scope = "auto" /\ KeywordTargets(out.query) # {})
        => PathsOf(out.candidates) = DEFAULT_FILES

C8_Witness ==
    /\ Returned
    /\ out.scope = "auto"
    /\ KeywordTargets(out.query) # {}
    /\ KeywordTargets(out.query) \subseteq Range(DEFAULT_FILES)
    /\ Len(out.candidates) = 3

\* C9: under "auto" a query holding no routing keyword is searched in the
\* whole configured corpus, which is not empty unless the corpus is.
C9_NoMatchSearchesCorpus ==
    (Returned /\ out.scope = "auto" /\ KeywordTargets(out.query) = {})
        => /\ PathsOf(out.candidates) = DEFAULT_FILES
           /\ DEFAULT_FILES # <<>> => out.candidates # <<>>

C9_Witness ==
    /\ Returned
    /\ out.scope = "auto"
    /\ KeywordTargets(out.query) = {}
    /\ Len(out.candidates) = 3
    /\ Len(out.indexed) = 3

\* C10: a candidate that ensure_indexed fails on (file missing, extractor
\* error) is recorded in skipped with its error, every other candidate is
\* still processed and its rows reach the ranking, and run raises only for
\* a blank query or an unsupported extension, never for such a failure.
C10_FailureIsIsolated ==
    /\ Returned =>
         /\ Len(out.indexed) + Len(out.skipped) = Len(out.candidates)
         /\ \A k \in 1..Len(out.candidates) :
              LET p == out.candidates[k].path
              IN  /\ ~fs[p].exists =>
                        [path |-> p, err |-> "FileNotFoundError"] \in Range(out.skipped)
                  /\ (fs[p].exists /\ ExtractFails(fs[p])) =>
                        [path |-> p, err |-> "ExtractError"] \in Range(out.skipped)
                  /\ (fs[p].exists /\ ~ExtractFails(fs[p])) =>
                        /\ p \in DOMAIN indices
                        /\ Len(indices[p].chunks) > 0 =>
                              /\ p \in Range(out.indexed)
                              /\ out.top_k = TOP_K_DEFAULT =>
                                    \E m \in 1..Len(out.results) : out.results[m].cand = k
    /\ (out.op = "run" /\ out.raised # "none") =>
         \/ out.query = <<>>
         \/ route_candidates(out.query, out.scope, out.files, DEFAULT_FILES).raised # "none"

C10_Witness ==
    /\ Returned
    /\ Len(out.candidates) = 3
    /\ \E k \in 1..Len(out.skipped) : out.skipped[k].err = "FileNotFoundError"
    /\ \E k \in 1..Len(out.skipped) : out.skipped[k].err = "ExtractError"
    /\ out.skipped[1].path = out.candidates[1].path
    /\ out.indexed = <<out.candidates[3].path>>
    /\ out.results # <<>>

\* a run whose query was not blank: it reached search
Searched == out.op = "run" /\ out.query # <<>>

SkippedPaths == {out.skipped[m].path : m \in 1..Len(out.skipped)}

\* C11: a run with scope "files" whose list holds a path with an
\* unsupported extension returns a response; that path is recorded in
\* skipped and every other listed file is a candidate that was processed.
C11_UnsupportedIsSkipped ==
    (/\ Searched
     /\ out.scope = "files"
     /\ \E k \in 1..Len(out.files) : detect_kind(out.files[k]) = "ValueError")
    => /\ out.raised = "none"
       /\ \A k \in 1..Len(out.files) :
             IF detect_kind(out.files[k]) = "ValueError"
             THEN out.files[k] \in SkippedPaths
             ELSE out.files[k] \in Range(out.indexed) \cup SkippedPaths

\* every candidate of the call is a file that ensure_indexed fails on
AllFail(refs) ==
    \A k \in 1..Len(refs) :
        ~fs[refs[k].path].exists \/ ExtractFails(fs[refs[k].path])

NoneIndexable(route) == route.raised = "none" /\ AllFail(route.refs)

\* C12: a run whose candidate set is empty, or whose candidates all fail
\* in ensure_indexed, returns (it does not raise) low_confidence = TRUE,
\* no results and the fixed answer.
C12_NothingIndexedIsLowConfidence ==
    (/\ Searched
     /\ NoneIndexable(route_candidates(out.query, out.scope, out.files, DEFAULT_FILES)))
    => /\ out.raised = "none"
       /\ out.results = <<>>
       /\ out.low_confidence
       /\ out.best_answer = NoContext

\* C13: whatever the setting of MIN_ACCEPTED, low_confidence is TRUE
\* exactly when the truncated result list is empty or its first score is
\* below MIN_ACCEPTED.
C13_LowConfidenceIff ==
    Returned => (out.low_confidence <=>
                    (out.results = <<>> \/ out.results[1].score < MIN_ACCEPTED))

\* C14: a run whose query is empty or blank after strip() raises
\* ValueError without having called encode_query or ensure_indexed, and
\* leaves the store as it was.
C14_BlankQueryIsRejected ==
    [][(out'.op = "run" /\ strip(out'.given.query) = <<>>)
          => /\ out'.raised = "ValueError"
             /\ out'.encoded = 0
             /\ out'.ensured = 0
             /\ indices' = indices]_vars

C14_Witness ==
    /\ out.op = "run"
    /\ out.given.query = <<-1>>
    /\ out.raised = "ValueError"
    /\ Len(DEFAULT_FILES) = 3
    /\ Cardinality(DOMAIN indices) = 2
    /\ \E p \in Range(DEFAULT_FILES) : ~(p \in DOMAIN indices)

\* C15: a run whose top_k is zero, negative or not a whole number raises
\* instead of searching, and no response comes from a search with
\* top_k <= 0.
C15_BadTopKIsRejected ==
    Searched =>
        /\ (out.given.top_k <= 0 \/ out.given.top_k % 2 # 0) => out.raised # "none"
        /\ out.raised = "none" => out.top_k > 0

\* C16: when a file of the configured corpus does not exist at start, the
\* construction of the adapter fails: nothing was indexed, the adapter
\* never becomes ready and no call is ever answered.
C16_MissingCorpusFileIsFatal ==
    (pc # "import" /\ \E k \in 1..Len(DEFAULT_FILES) : ~fs[DEFAULT_FILES[k]].exists)
        => /\ pc = "failed"
           /\ indices = <<>>
           /\ out = NoCall

C16_Witness ==
    /\ pc = "failed"
    /\ Len(DEFAULT_FILES) = 3
    /\ fs[DEFAULT_FILES[1]].exists
    /\ ~ExtractFails(fs[DEFAULT_FILES[1]])
    /\ ~fs[DEFAULT_FILES[3]].exists

\* an entry is whole: its chunks are the chunks of the content it was
\* built from, and it has the embedding of each of them
Whole(p, e) ==
    /\ e.chunks = chunk(presection(RawSections(e.src.ver)), p, detect_kind(p))
    /\ Len(e.embeddings) = Len(e.chunks)
    /\ \A k \in 1..Len(e.chunks) : e.embeddings[k] = Embed(e.chunks[k].text)

\* C17: a step in which a call of ensure_indexed fails or is interrupted
\* leaves the store as it was, no step removes an entry, and an entry that
\* a step makes visible (new, or in place of another) is whole.
C17_EntryVisibleOnlyWhole ==
    [][/\ (\E c \in Callers : pc'[c].at = "failed" /\ pc[c].at # "failed")
            => indices' = indices
       /\ \A p \in DOMAIN indices : p \in DOMAIN indices'
       /\ \A p \in DOMAIN indices' :
             (p \notin DOMAIN indices \/ indices'[p] # indices[p])
                 => Whole(p, indices'[p])]_vars

C17_Witness ==
    /\ pc[1].at = "failed"
    /\ pc[1].err = "Interrupted"
    /\ pc[1].was = "embedded"
    /\ pc[1].path = "a.md"
    /\ pc[2].at = "done"
    /\ pc[2].path = "b.pdf"
    /\ "a.md" \in DOMAIN indices
    /\ indices["a.md"].etag # etag_local(fs["a.md"])
    /\ "b.pdf" \in DOMAIN indices

\* the caller has extracted the document and has not stored its entry yet
Working(c) == pc[c].at \in {"extracted", "chunked", "embedded"}

\* C18: no two calls of ensure_indexed are at the same time extracting,
\* chunking or embedding the same path for the same etag: the second
\* caller waits for the first and does none of that work.
C18_SingleFlight ==
    \A c \in Callers, d \in Callers :
        (c # d /\ Working(c) /\ Working(d))
            => ~(pc[c].path = pc[d].path /\ pc[c].etag = pc[d].etag)

\* a call of tabular_insights in the given mode with an integer top_k >= 1
\* and the arguments the mode requires
AskedTop(mode) ==
    /\ out.op = "tabular"
    /\ out.given.mode = mode
    /\ out.given.top_k # <<>>
    /\ out.given.top_k[1] >= 1
    /\ mode = "tops" => out.given.sort_by = "net_total"
    /\ mode = "over_time" => out.given.time_grain = "month"

RestaurantsOf(lines) == {lines[k].restaurant_id : k \in 1..Len(lines)}
MonthsOf(lines) == {lines[k].month : k \in 1..Len(lines)}

\* C19: mode "tops" with top_k = k returns exactly min(k, number of
\* restaurants) rows and reports that number as the count of its rows.
C19_TopsReturnsMinOfKAndGroups ==
    AskedTop("tops") =>
        /\ out.ok
        /\ Len(out.data) = Min(out.given.top_k[1], Cardinality(RestaurantsOf(csv[CSV_PATH].lines)))
        /\ out.row_count = Len(out.data)

\* C20: mode "over_time" with top_k = k returns the k most recent periods
\* (all of them when there are fewer), in ascending order of time.
C20_OverTimeReturnsLastK ==
    AskedTop("over_time") =>
        /\ out.ok
        /\ Len(out.data) = Min(out.given.top_k[1], Cardinality(MonthsOf(csv[CSV_PATH].lines)))
        /\ \A k \in 1..(Len(out.data) - 1) : out.data[k].period < out.data[k + 1].period
        /\ \A k \in 1..Len(out.data) :
              /\ out.data[k].period \in MonthsOf(csv[CSV_PATH].lines)
              /\ Cardinality({m \in MonthsOf(csv[CSV_PATH].lines) : m > out.data[k].period})
                    < out.given.top_k[1]

\* a call of tabular_insights that passes the checks of its first lines (a
\* sort_dir that is "asc" or "desc", no top_k below 1)
PassedChecks ==
    /\ out.op = "tabular"
    /\ out.given.sort_dir \in {"asc", "desc"}
    /\ out.given.top_k = <<>> \/ out.given.top_k[1] >= 1

\* the payload reports an error: it was returned, not raised, with ok =
\* false and a field "error" of its own
ReportsError == out.raised = "none" /\ ~out.ok /\ "error" \in DOMAIN out

\* C21: tabular_insights called with a mode that is not a supported one
\* raises nothing and returns ok = false with a top-level "error".
C21_BadModeIsReported ==
    (out.op = "tabular" /\ norm_mode(out.given.mode) \notin ModeLiteral) => ReportsError

\* a request that is well formed: a supported mode with the arguments
\* validate_query requires of it
WellFormed(q) == TabularQuery(q).raised = "none" /\ validate_query(TabularQuery(q).q) = "none"

\* C22: a well-formed query made while the CSV lacks the required columns
\* returns ok = false with a top-level "error", whatever was served before.
\* (out is the last step's result, so the CSV is as the call found it)
C22_BadSchemaIsReported ==
    (PassedChecks /\ WellFormed(out.given) /\ csv[CSV_PATH] = BadCsv) => ReportsError

Consecutive(chunks, k) == chunks[k].locator = chunks[k + 1].locator

\* the position in its section of the first word of a chunk
StartOf(c) == (c.text[1] % 10) - 1

NumChunksOf(chunks, i) == Cardinality({k \in 1..Len(chunks) : chunks[k].locator = i})

StrideOf(cfg) == IF cfg.tokens - cfg.overlap > 0 THEN cfg.tokens - cfg.overlap ELSE 1

C24_ChunkStaysInItsSection ==
    out.op = "chunk" =>
        /\ \A k \in 1..Len(out.chunks) :
              LET c == out.chunks[k]
              IN  /\ c.text # <<>>
                  /\ Len(c.text) <= pc.cfg.tokens
                  /\ c.locator \in 1..Len(out.sections)
                  /\ \A m \in 1..Len(c.text) : c.text[m] \div 10 = c.locator
                  /\ \A m \in 1..(Len(c.text) - 1) : c.text[m + 1] = c.text[m] + 1
                  /\ c.idx_local = IF k > 1 /\ out.chunks[k - 1].locator = c.locator
                                   THEN out.chunks[k - 1].idx_local + 1 ELSE 0
        /\ \A k \in 1..(Len(out.chunks) - 1) :
              /\ out.chunks[k].locator <= out.chunks[k + 1].locator
              /\ Consecutive(out.chunks, k) =>
                    StartOf(out.chunks[k]) < StartOf(out.chunks[k + 1])

\* two sections were cut into several chunks each
C24_Witness ==
    /\ out.op = "chunk"
    /\ Len(out.sections) >= 2
    /\ NumChunksOf(out.chunks, 1) >= 2
    /\ NumChunksOf(out.chunks, 2) >= 2
    /\ pc.cfg.overlap >= 1

\* the rows candidate number c contributed, and the chunks of its document
RowsOf(c) == SelectSeq(out.rows, LAMBDA r : r.cand = c)

EntryOfCand(c) == indices[out.candidates[c].path]

WasIndexed(c) == \E k \in 1..Len(out.indexed) : out.indexed[k] = out.candidates[c].path

\* the rows of candidate c are the best of its chunks: no chunk left out
\* scores higher than a row, and no chunk is taken twice
BestOfDoc(c) ==
    LET e == EntryOfCand(c)
        qv == encode_query(out.query)
        taken == {RowsOf(c)[m].idx : m \in 1..Len(RowsOf(c))}
    IN  /\ Cardinality(taken) = Len(RowsOf(c))
        /\ \A m \in 1..Len(RowsOf(c)) :
              RowsOf(c)[m].score = Cosine(qv, e.embeddings[RowsOf(c)[m].idx])
        /\ \A i \in taken, j \in (1..Len(e.chunks)) \ taken :
              Cosine(qv, e.embeddings[i]) >= Cosine(qv, e.embeddings[j])

\* C25 as claimed: an indexed candidate contributes at most
\* max(3, min(chunkCount, ceil(topK / max(1, candidates)) * 2)) rows, the
\* highest-scoring chunks of its document.
C25_LocalTopKAsSpecified ==
    out.op = "search" =>
        \A c \in 1..Len(out.candidates) :
            WasIndexed(c) =>
                /\ Len(RowsOf(c))
                      <= Max(3, Min(Len(EntryOfCand(c).chunks),
                                    Ceil(out.top_k, Max(1, Len(out.candidates))) * 2))
                /\ BestOfDoc(c)

\* C25 amended: k_local = max(3, min(chunkCount, max(5, ceil(topK /
\* max(1, candidates)) * 2))); an indexed candidate contributes its
\* min(k_local, chunkCount) highest-scoring chunks.
C25_LocalTopKWithFloor ==
    out.op = "search" =>
        \A c \in 1..Len(out.candidates) :
            WasIndexed(c) =>
                /\ Len(RowsOf(c))
                      = Min(Len(EntryOfCand(c).chunks),
                            Max(3, Min(Len(EntryOfCand(c).chunks),
                                       Max(5, Ceil(out.top_k,
                                                   Max(1, Len(out.candidates))) * 2))))
                /\ BestOfDoc(c)

\* a document of six chunks gave five of them although top_k was 1
C25_Witness ==
    /\ out.op = "search"
    /\ out.top_k = 1
    /\ \E c \in 1..Len(out.candidates) :
          /\ WasIndexed(c)
          /\ Len(EntryOfCand(c).chunks) > 5
          /\ Len(RowsOf(c)) = 5

\* the result of rank k is the first of its source
FirstOfSource(ranked, k) == \A j \in 1..(k - 1) : ranked[j].source # ranked[k].source

\* C26: for a non-empty ranked list the passages come in rank order, one
\* for each distinct source (the first result of the source), and no more
\* than 4 of them; an empty list gives the fixed message.
C26_OnePassagePerSource ==
    out.op = "compose_answer" =>
        IF pc.ranked = <<>> THEN out.answer = NoContext
        ELSE /\ Len(out.answer) \in 1..4
             /\ \A m \in 1..(Len(out.answer) - 1) :
                   out.answer[m].rank < out.answer[m + 1].rank
             /\ \A m \in 1..Len(out.answer) :
                   /\ out.answer[m].rank \in 1..Len(pc.ranked)
                   /\ FirstOfSource(pc.ranked, out.answer[m].rank)
             /\ \A k \in 1..Len(pc.ranked) :
                   (/\ FirstOfSource(pc.ranked, k)
                    /\ \A m \in 1..Len(out.answer) : out.answer[m].rank # k)
                   => (Len(out.answer) = 4 /\ out.answer[4].rank < k)

\* four passages were emitted, a repeated source was skipped on the way,
\* and a fifth source was left out
C26_Witness ==
    /\ out.op = "compose_answer"
    /\ Len(pc.ranked) = MaxRanked
    /\ Len(out.answer) = 4
    /\ out.answer[4].rank = 5
    /\ FirstOfSource(pc.ranked, MaxRanked)

\* the snippet a passage was made from
SnippetAt(m) == strip(pc.ranked[out.answer[m].rank].snippet)

\* a passage made of whole words of its snippet, from the first on, that
\* stops where the next word would pass the limit
CutAtBlank(p, s) ==
    /\ p.partial = 0
    /\ p.text # <<>>
    /\ Len(p.text) < Len(s)
    /\ p.text = SubSeq(s, 1, Len(p.text))
    /\ CharLen(p.text) <= 600
    /\ CharLen(SubSeq(s, 1, Len(p.text) + 1)) >= 600

\* C27 as claimed: a snippet of at most 600 characters is emitted
\* unchanged; a longer one is cut at the last blank before the limit and
\* gets the ellipsis, so that at most 600 of its characters are emitted.
C27_CutAtLastBlank ==
    (out.op = "compose_answer" /\ pc.ranked # <<>>) =>
        \A m \in 1..Len(out.answer) :
            IF CharLen(SnippetAt(m)) <= 600
            THEN /\ out.answer[m].text = SnippetAt(m)
                 /\ out.answer[m].partial = 0
                 /\ ~out.answer[m].cut
            ELSE /\ out.answer[m].cut
                 /\ CutAtBlank(out.answer[m], SnippetAt(m))

\* C27 amended: a longer snippet is cut at the last blank of its first 600
\* characters when they hold one (or end a word), and after 600 characters
\* when its first word is longer than that.
C27_CutAtLastBlankIfAny ==
    (out.op = "compose_answer" /\ pc.ranked # <<>>) =>
        \A m \in 1..Len(out.answer) :
            IF CharLen(SnippetAt(m)) <= 600
            THEN /\ out.answer[m].text = SnippetAt(m)
                 /\ out.answer[m].partial = 0
                 /\ ~out.answer[m].cut
            ELSE /\ out.answer[m].cut
                 /\ CharLen(out.answer[m].text) + out.answer[m].partial <= 600
                 /\ IF WordLen(SnippetAt(m)[1]) > 600
                    THEN out.answer[m].text = <<>> /\ out.answer[m].partial = 600
                    ELSE CutAtBlank(out.answer[m], SnippetAt(m))

\* the answer holds a snippet emitted whole, one cut at a blank and one
\* cut inside its first word
C27_Witness ==
    /\ out.op = "compose_answer"
    /\ pc.ranked # <<>>
    /\ \E m \in 1..Len(out.answer) : ~out.answer[m].cut /\ CharLen(SnippetAt(m)) = 600
    /\ \E m \in 1..Len(out.answer) : out.answer[m].cut /\ out.answer[m].partial = 0
    /\ \E m \in 1..Len(out.answer) : out.answer[m].cut /\ out.answer[m].partial = 600

KeysOf(store) == {store[k].key : k \in 1..Len(store)}

\* the least recently used of the keys K, by the history used
LeastRecent(used, K) ==
    used[CHOOSE k \in 1..Len(used) :
            /\ used[k] \in K
            /\ \A j \in 1..(k - 1) : used[j] \notin K]

\* the entries of the keys K are in both stores, with the same values
SameEntries(a, b, K) ==
    \A key \in K : Holds(a, key) /\ Holds(b, key) /\ ValueAt(a, key) = ValueAt(b, key)

\* a put, or a get_or_compute that found nothing, of the key with the value
Stores(key, val) ==
    /\ Len(cache'.store) <= cache.max_items
    /\ IF Cardinality(KeysOf(cache.store) \cup {key}) > cache.max_items
       THEN KeysOf(cache'.store)
               = (KeysOf(cache.store) \cup {key})
                    \ {LeastRecent(cache'.used, KeysOf(cache.store) \cup {key})}
       ELSE KeysOf(cache'.store) = KeysOf(cache.store) \cup {key}
    /\ SameEntries(cache.store, cache'.store, KeysOf(cache'.store) \ {key})
    /\ Holds(cache'.store, key) => ValueAt(cache'.store, key) = val

\* a get, or a get_or_compute, that found the key
Finds(key) ==
    /\ out'.val = ValueAt(cache.store, key)
    /\ KeysOf(cache'.store) = KeysOf(cache.store)
    /\ SameEntries(cache.store, cache'.store, KeysOf(cache.store))

\* C28: the cache never holds more than max_items entries and no key
\* twice; a put that overflows evicts exactly the key used least recently,
\* where a successful get and a put count as a use of their key; every
\* other entry stays as it is.
C28_EvictsLeastRecentlyUsed ==
    [][/\ Len(cache'.store) <= cache'.max_items
       /\ Cardinality(KeysOf(cache'.store)) = Len(cache'.store)
       /\ out'.op = "put" => Stores(out'.key, out'.val)
       /\ out'.op = "get" =>
             IF Holds(cache.store, out'.key) THEN Finds(out'.key)
             ELSE out'.val = "None" /\ cache'.store = cache.store
       /\ out'.op = "get_or_compute" =>
             IF Holds(cache.store, out'.key) THEN Finds(out'.key)
             ELSE out'.val = out'.computed /\ Stores(out'.key, out'.computed)
       /\ out'.op = "clear" => cache'.store = <<>>]_vars

\* a full cache of two entries or more, where the entry put first was read
\* again after the others were put, has just evicted another entry
C28_Witness ==
    /\ out.op = "put"
    /\ cache.max_items >= 2
    /\ Len(cache.store) = cache.max_items
    /\ Len(cache.used) > cache.max_items
    /\ cache.used[1] # 1
    /\ Holds(cache.store, 1)
    /\ out.key # 1
    /\ cache.store[1].key = 1


\* the paths cands are the lists a and b merged, each keeping its order
RECURSIVE IsMerge(_, _, _)
IsMerge(cands, a, b) ==
    IF cands = <<>> THEN a = <<>> /\ b = <<>>
    ELSE \/ a # <<>> /\ Head(a) = Head(cands) /\ IsMerge(Tail(cands), Tail(a), b)
         \/ b # <<>> /\ Head(b) = Head(cands) /\ IsMerge(Tail(cands), a, Tail(b))

SkippedInOrder == [k \in 1..Len(out.skipped) |-> out.skipped[k].path]

\* C30: in the debug output of a search every candidate is listed once, in
\* debug.indexed or in debug.skipped, both in the order of the candidates,
\* and every result comes from a candidate listed in debug.indexed and from
\* no skipped one.
C30_DebugPartitionsCandidates ==
    Returned =>
        /\ IsMerge(PathsOf(out.candidates), out.indexed, SkippedInOrder)
        /\ \A m \in 1..Len(out.results) :
              /\ out.results[m].cand \in 1..Len(out.candidates)
              /\ out.results[m].source[1] = out.candidates[out.results[m].cand].path
              /\ out.results[m].source[1] \in Range(out.indexed)
              /\ out.results[m].source[1] \notin SkippedPaths

\* a search over three candidates or more, one skipped between two indexed
\* ones, that returned results of the later one
C30_Witness ==
    /\ Returned
    /\ \E a, b, c \in 1..Len(out.candidates) :
          /\ a < b /\ b < c
          /\ out.candidates[a].path \in Range(out.indexed)
          /\ out.candidates[b].path \in SkippedPaths
          /\ out.candidates[b].path \notin Range(out.indexed)
          /\ out.candidates[c].path \in Range(out.indexed)
          /\ \E m \in 1..Len(out.results) : out.results[m].cand = c

=============================================================================
